---- MODULE Spec2Model ----
(***************************************************************************)
(* express-jobly: the company and job models (models/company.js,           *)
(* models/job.js) and the partial-update helper (helpers/sql.js), over a   *)
(* relational store holding the tables companies and jobs.                 *)
(*                                                                         *)
(* A JavaScript value is a tagged record, a JavaScript object a sequence   *)
(* of [k, v] entries in property-creation order.  A text is the sequence   *)
(* of its pieces: one character each where the database looks inside the   *)
(* text (names, titles, filter texts), one piece per identifier or         *)
(* template fragment elsewhere.  A SQL statement is the structure of its   *)
(* text: table, WHERE conjuncts, ORDER BY column, and the positional       *)
(* parameters sent with it.                                                *)
(***************************************************************************)
EXTENDS Integers, Sequences, FiniteSets, TLC

VARIABLES
  companies,   \* table companies: its rows, in the order they were inserted
  jobs,        \* table jobs: its rows, in the order they were inserted
  res,         \* the call that has just settled, or Idle
  calls        \* the create calls that run concurrently: where each one is

vars == <<companies, jobs, res, calls>>

-----------------------------------------------------------------------------
(* Bounds *)

\* numeric columns (num_employees, salary) hold NULL or 1..MaxNum
MaxNum == 3
\* a filter mapping holds at most MaxFilterKeys keys
MaxFilterKeys == 3
\* an update mapping holds at most MaxDataKeys keys
MaxDataKeys == 2

\* the most rows the jobs table is let grow to
MaxRows == 2

\* the number of create calls that run concurrently
MaxCalls == 2

-----------------------------------------------------------------------------
(* JavaScript values *)

Num(n) == [t |-> "number", n |-> n]
Str(s) == [t |-> "string", s |-> s]
Bool(b) == [t |-> "boolean", b |-> b]
Null == [t |-> "null"]
Undefined == [t |-> "undefined"]
NaN == [t |-> "NaN"]

DigitVal(c) ==
  CASE c = "0" -> 0 [] c = "1" -> 1 [] c = "2" -> 2 [] c = "3" -> 3
    [] c = "4" -> 4 [] c = "5" -> 5 [] c = "6" -> 6 [] c = "7" -> 7
    [] c = "8" -> 8 [] c = "9" -> 9 [] OTHER -> -1

IsDigit(c) == DigitVal(c) >= 0

RECURSIVE DigitsValue(_)
DigitsValue(s) ==
  IF s = <<>> THEN 0
  ELSE 10 * DigitsValue(SubSeq(s, 1, Len(s) - 1)) + DigitVal(s[Len(s)])

\* Number(v): a number is kept, a string of digits is parsed, the empty
\* string is 0, any other string and undefined are NaN, null is 0, a boolean
\* is 0 or 1.
Number(v) ==
  CASE v.t = "number" -> v
    [] v.t = "string" ->
         IF \A i \in 1..Len(v.s) : IsDigit(v.s[i])
         THEN Num(DigitsValue(v.s)) ELSE NaN
    [] v.t = "null" -> Num(0)
    [] v.t = "boolean" -> Num(IF v.b THEN 1 ELSE 0)
    [] OTHER -> NaN

\* the comparison turned around
JsGreaterReversed(a, b) == a.t = "number" /\ b.t = "number" /\ a.n < b.n

\* a > b on two results of Number(): false as soon as one side is NaN
JsGreater(a, b) == a.t = "number" /\ b.t = "number" /\ a.n > b.n

\* if (v): false, null, undefined, NaN, 0 and "" are falsy
Truthy(v) ==
  CASE v.t = "boolean" -> v.b
    [] v.t = "string" -> v.s # <<>>
    [] v.t = "number" -> v.n # 0
    [] v.t = "function" -> TRUE
    [] OTHER -> FALSE

\* a || b
JsOr(a, b) == IF Truthy(a) THEN a ELSE b

\* `${v}`: the text a template literal writes for a value
TemplateText(v) ==
  CASE v.t = "string" -> v.s
    [] v.t = "number" -> <<ToString(v.n)>>
    [] v.t = "boolean" -> IF v.b THEN <<"true">> ELSE <<"false">>
    [] v.t = "function" -> <<"function Object() { [native code] }">>
    [] OTHER -> <<v.t>>

-----------------------------------------------------------------------------
(* JavaScript objects *)

\* The array-index value of a property key, -1 when the key is no array index.
ArrayIndex(k) ==
  CASE k = "0" -> 0 [] k = "1" -> 1 [] k = "2" -> 2 [] OTHER -> -1

RECURSIVE SelectKeys(_, _)
SelectKeys(o, want) ==
  IF o = <<>> THEN <<>>
  ELSE (IF (ArrayIndex(o[1].k) >= 0) = want THEN <<o[1].k>> ELSE <<>>)
       \o SelectKeys(Tail(o), want)

RECURSIVE SortIndexKeys(_)
SortIndexKeys(ks) ==
  IF ks = <<>> THEN <<>>
  ELSE LET i == CHOOSE i \in 1..Len(ks) :
                  \A j \in 1..Len(ks) : ArrayIndex(ks[i]) <= ArrayIndex(ks[j])
       IN <<ks[i]>> \o SortIndexKeys(SubSeq(ks, 1, i - 1) \o SubSeq(ks, i + 1, Len(ks)))

\* Object.keys(o): the array-index keys in ascending numeric order, then the
\* other string keys in property-creation order.
ObjectKeys(o) == SortIndexKeys(SelectKeys(o, TRUE)) \o SelectKeys(o, FALSE)

HasOwn(o, k) == \E i \in 1..Len(o) : o[i].k = k

\* o[k] on an own property
OwnValue(o, k) == o[CHOOSE i \in 1..Len(o) : o[i].k = k].v

\* the properties every object literal inherits from Object.prototype
\* (the ones the model's keys can name)
InheritedKeys == {"constructor"}

\* o[k]: the own property, else the inherited one (a function), else undefined
Get(o, k) ==
  IF HasOwn(o, k) THEN OwnValue(o, k)
  ELSE IF k \in InheritedKeys THEN [t |-> "function", name |-> k]
  ELSE Undefined

\* Object.values(o): the values in the order of Object.keys(o)
ObjectValues(o) == [i \in 1..Len(ObjectKeys(o)) |-> OwnValue(o, ObjectKeys(o)[i])]

Includes(s, x) == \E i \in 1..Len(s) : s[i] = x

\* the objects with at most n distinct keys among ks, the value of key k
\* drawn from vals[k], in every property-creation order
RECURSIVE ObjectsOver(_, _, _)
ObjectsOver(ks, vals, n) ==
  IF n = 0 THEN {<<>>}
  ELSE LET smaller == ObjectsOver(ks, vals, n - 1)
       IN smaller \cup
          { Append(o, [k |-> k, v |-> v]) :
              <<o, k, v>> \in { t \in smaller \X ks \X UNION {vals[k] : k \in ks} :
                                  /\ Len(t[1]) = n - 1
                                  /\ ~HasOwn(t[1], t[2])
                                  /\ t[3] \in vals[t[2]] } }

-----------------------------------------------------------------------------
(* Strings the database compares *)

Lower(c) == CASE c = "A" -> "a" [] c = "B" -> "b" [] c = "J" -> "j" [] OTHER -> c

LowerStr(s) == [i \in 1..Len(s) |-> Lower(s[i])]

\* needle occurs in hay
Contains(hay, needle) ==
  \E i \in 0..(Len(hay) - Len(needle)) :
     \A j \in 1..Len(needle) : hay[i + j] = needle[j]

\* x ILIKE '%' || p || '%' on a pattern of plain letters and digits
ILikeContains(x, p) == Contains(LowerStr(x), LowerStr(p))

\* the collation's rank of a character
CharRank(c) ==
  CASE c = "0" -> 48 [] c = "1" -> 49 [] c = "2" -> 50
    [] c = "A" -> 65 [] c = "B" -> 66 [] c = "J" -> 74
    [] c = "a" -> 97 [] c = "b" -> 98 [] c = "j" -> 106
    [] OTHER -> 120

RECURSIVE StrLeq(_, _)
StrLeq(a, b) ==
  IF a = <<>> THEN TRUE
  ELSE IF b = <<>> THEN FALSE
  ELSE IF a[1] = b[1] THEN StrLeq(Tail(a), Tail(b))
  ELSE CharRank(a[1]) < CharRank(b[1])

-----------------------------------------------------------------------------
(* The store: the statements the models send and what the database answers *)

CompanyTableColumns == {"handle", "name", "description", "num_employees", "logo_url"}

JobTableColumns == {"title", "salary", "equity", "company_handle"}

TableColumns(table) ==
  IF table = "companies" THEN CompanyTableColumns ELSE JobTableColumns

\* the columns compared as integers
IntegerColumns == {"num_employees", "salary"}

Table(table) == IF table = "companies" THEN companies ELSE jobs

\* the select list shared by the company queries
CompanySelectList ==
  << [col |-> "handle", as |-> "handle"],
     [col |-> "name", as |-> "name"],
     [col |-> "description", as |-> "description"],
     [col |-> "num_employees", as |-> "numEmployees"],
     [col |-> "logo_url", as |-> "logoUrl"] >>

\* the select list shared by the job queries
JobSelectList ==
  << [col |-> "title", as |-> "title"],
     [col |-> "salary", as |-> "salary"],
     [col |-> "equity", as |-> "equity"],
     [col |-> "company_handle", as |-> "companyHandle"] >>

\* one WHERE conjunct: column, operator, and the placeholders it reads
Pred(col, op, args) == [col |-> col, op |-> op, args |-> args]

Select(table, list, where, orderBy, params) ==
  [kind |-> "SELECT", table |-> table, list |-> list, where |-> where,
   orderBy |-> orderBy, params |-> params]

\* a decimal text such as "0.5" differs from 0
DecimalNonZero(s) == \E i \in 1..Len(s) : DigitVal(s[i]) > 0

\* the value of conjunct p on a row; SQL's unknown (a NULL operand) selects
\* nothing, like false
PredHolds(row, p, params) ==
  LET x == row[p.col] IN
  CASE p.op = "=" -> x = params[p.args[1]]
    [] p.op = "ILIKE" -> x.t = "string" /\ ILikeContains(x.s, params[p.args[1]].s)
    [] p.op = ">=" -> x.t = "number" /\ x.n >= params[p.args[1]].n
    [] p.op = "<=" -> x.t = "number" /\ x.n <= params[p.args[1]].n
    [] p.op = ">" -> x.t = "number" /\ x.n > params[p.args[1]].n
    [] p.op = "BETWEEN" ->
         /\ x.t = "number"
         /\ x.n >= params[p.args[1]].n
         /\ x.n <= params[p.args[2]].n
    [] p.op = "!= 0" -> x.t = "string" /\ DecimalNonZero(x.s)
    [] OTHER -> FALSE

\* the database rejects a statement that names a column the table does not
\* have, or that binds a parameter that is no integer (NaN, a non-numeric
\* text) where an integer column is compared
StatementFails(q) ==
  \E i \in 1..Len(q.where) :
     LET p == q.where[i] IN
     \/ p.col \notin TableColumns(q.table)
     \/ /\ p.col \in IntegerColumns
        /\ \E j \in 1..Len(p.args) : q.params[p.args[j]].t # "number"

\* the positions of the rows of q's table that satisfy every conjunct
Matching(q) ==
  { i \in 1..Len(Table(q.table)) :
      \A j \in 1..Len(q.where) : PredHolds(Table(q.table)[i], q.where[j], q.params) }

Project(row, list) ==
  [a \in {list[i].as : i \in 1..Len(list)} |->
     row[list[CHOOSE i \in 1..Len(list) : list[i].as = a].col]]

\* the orders ORDER BY col may return the rows at positions ps in: every
\* arrangement that ascends on col (rows equal on col come in any order;
\* without ORDER BY, col = "", any arrangement)
Orderings(rows, ps, col) ==
  { s \in [1..Cardinality(ps) -> ps] :
      /\ \A i, j \in 1..Cardinality(ps) : i # j => s[i] # s[j]
      /\ col # "" =>
           \A i \in 1..(Cardinality(ps) - 1) :
              StrLeq(rows[s[i]][col].s, rows[s[i + 1]][col].s) }

\* db.query(select): the outcomes the database may answer with
DbSelect(q) ==
  IF StatementFails(q) THEN {[status |-> "DbError", rows |-> <<>>]}
  ELSE { [status |-> "ok",
          rows |-> [i \in 1..Len(s) |-> Project(Table(q.table)[s[i]], q.list)]] :
           s \in Orderings(Table(q.table), Matching(q), q.orderBy) }

\* UPDATE table SET <set> WHERE <where> RETURNING <list>
Update(table, set, where, list, params) ==
  [kind |-> "UPDATE", table |-> table, set |-> set, where |-> where,
   list |-> list, params |-> params]

\* the assignments the database reads in a SET fragment
\*   "col"=$n, "col"=$n, ...
\* (five pieces each, the separator included): column and placeholder
SetAssignments(set) ==
  [i \in 1..((Len(set) + 1) \div 5) |->
     [col |-> set[5 * i - 3], arg |-> DigitsValue(<<set[5 * i - 1]>>)]]

\* an UPDATE fails like a SELECT, and when it assigns a column the table
\* does not have
UpdateFails(q) ==
  \/ StatementFails(q)
  \/ \E i \in 1..Len(SetAssignments(q.set)) :
        SetAssignments(q.set)[i].col \notin TableColumns(q.table)

\* the row after the assignments
Assigned(row, q) ==
  [c \in DOMAIN row |->
     IF \E i \in 1..Len(SetAssignments(q.set)) : SetAssignments(q.set)[i].col = c
     THEN q.params[SetAssignments(q.set)[
            CHOOSE i \in 1..Len(SetAssignments(q.set)) :
              SetAssignments(q.set)[i].col = c].arg]
     ELSE row[c]]

\* the table after UPDATE q: every row the WHERE selects is assigned
UpdatedTable(q) ==
  [i \in 1..Len(Table(q.table)) |->
     IF i \in Matching(q) THEN Assigned(Table(q.table)[i], q) ELSE Table(q.table)[i]]

\* the columns that identify a row of a table: handle is the primary key of
\* companies; jobs has no key of its own
PrimaryKey(table) == IF table = "companies" THEN {"handle"} ELSE {}

\* two of the rows agree on the table's primary key
KeyViolated(table, rows) ==
  /\ PrimaryKey(table) # {}
  /\ \E i, j \in 1..Len(rows) :
       i # j /\ \A c \in PrimaryKey(table) : rows[i][c] = rows[j][c]

\* db.query(update): the outcomes the database may answer with, each the
\* table it leaves and the rows RETURNING gives (in any order); an update
\* that would repeat a primary key is refused
DbUpdate(q) ==
  IF UpdateFails(q) \/ KeyViolated(q.table, UpdatedTable(q))
  THEN {[status |-> "DbError", rows |-> <<>>, table |-> Table(q.table)]}
  ELSE { [status |-> "ok",
          rows |-> [i \in 1..Len(s) |-> Project(UpdatedTable(q)[s[i]], q.list)],
          table |-> UpdatedTable(q)] :
           s \in Orderings(Table(q.table), Matching(q), "") }

\* DELETE FROM table WHERE <where> RETURNING <list>
Delete(table, where, list, params) ==
  [kind |-> "DELETE", table |-> table, where |-> where, list |-> list,
   params |-> params]

\* the rows of a table at the positions outside ps, in their order
RECURSIVE Without(_, _)
Without(rows, ps) ==
  IF rows = <<>> THEN <<>>
  ELSE Without(SubSeq(rows, 1, Len(rows) - 1), ps)
       \o (IF Len(rows) \in ps THEN <<>> ELSE <<rows[Len(rows)]>>)

\* db.query(delete): every row the WHERE selects is removed and returned (in
\* any order)
DbDelete(q) ==
  IF StatementFails(q)
  THEN {[status |-> "DbError", rows |-> <<>>, table |-> Table(q.table)]}
  ELSE { [status |-> "ok",
          rows |-> [i \in 1..Len(s) |-> Project(Table(q.table)[s[i]], q.list)],
          table |-> Without(Table(q.table), Matching(q))] :
           s \in Orderings(Table(q.table), Matching(q), "") }

-----------------------------------------------------------------------------
(* Results of a call *)

Idle == [op |-> "idle"]

Throw(error, message) == [throws |-> TRUE, error |-> error, message |-> message]

Dispatch(q) == [throws |-> FALSE, query |-> q]

\* only the first key is looked at
FirstInvalidKeyFirstOnly(keys, whitelist) ==
  IF keys = <<>> \/ keys[1] \in whitelist THEN "" ELSE keys[1]

\* the first key outside the whitelist, "" when there is none
FirstInvalidKey(keys, whitelist) ==
  IF \A i \in 1..Len(keys) : keys[i] \in whitelist THEN ""
  ELSE keys[CHOOSE i \in 1..Len(keys) :
              /\ keys[i] \notin whitelist
              /\ \A j \in 1..(i - 1) : keys[j] \in whitelist]

-----------------------------------------------------------------------------
(* helpers/sql.js *)

RECURSIVE Join(_, _)
\* parts.join(sep)
Join(parts, sep) ==
  IF parts = <<>> THEN <<>>
  ELSE IF Len(parts) = 1 THEN parts[1]
  ELSE parts[1] \o sep \o Join(Tail(parts), sep)

\* every value is written into the fragment in place of its placeholder
sqlForPartialUpdateInterpolating(dataToUpdate, jsToSql) ==
  LET keys == ObjectKeys(dataToUpdate)
      cols == [idx \in 1..Len(keys) |->
                 <<"\"">>
                 \o TemplateText(JsOr(Get(jsToSql, keys[idx]), Str(<<keys[idx]>>)))
                 \o <<"\"=">> \o TemplateText(OwnValue(dataToUpdate, keys[idx]))]
  IN
  IF Len(keys) = 0 THEN Throw("BadRequestError", <<"No data">>)
  ELSE [throws |-> FALSE,
        value |-> [setCols |-> Join(cols, <<", ">>), values |-> ObjectValues(dataToUpdate)]]

\* the null values are left out of the value list
sqlForPartialUpdateDroppingNulls(dataToUpdate, jsToSql) ==
  LET keys == ObjectKeys(dataToUpdate)
      cols == [idx \in 1..Len(keys) |->
                 <<"\"">>
                 \o TemplateText(JsOr(Get(jsToSql, keys[idx]), Str(<<keys[idx]>>)))
                 \o <<"\"=$", ToString(idx)>>]
  IN
  IF Len(keys) = 0 THEN Throw("BadRequestError", <<"No data">>)
  ELSE [throws |-> FALSE,
        value |-> [setCols |-> Join(cols, <<", ">>),
                   values |-> SelectSeq(ObjectValues(dataToUpdate), LAMBDA v : v # Null)]]

\* sqlForPartialUpdate without its check for data
sqlForPartialUpdateUnchecked(dataToUpdate, jsToSql) ==
  LET keys == ObjectKeys(dataToUpdate)
      cols == [idx \in 1..Len(keys) |->
                 <<"\"">> \o TemplateText(JsOr(Get(jsToSql, keys[idx]), Str(<<keys[idx]>>)))
                 \o <<"\"=$", ToString(idx)>>]
  IN [throws |-> FALSE,
      value |-> [setCols |-> Join(cols, <<", ">>), values |-> ObjectValues(dataToUpdate)]]

\* sqlForPartialUpdate(dataToUpdate, jsToSql): the error it throws, or the
\* SET fragment and the value list it returns
sqlForPartialUpdate(dataToUpdate, jsToSql) ==
  LET keys == ObjectKeys(dataToUpdate)
      cols == [idx \in 1..Len(keys) |->
                 <<"\"">>
                 \o TemplateText(JsOr(Get(jsToSql, keys[idx]), Str(<<keys[idx]>>)))
                 \o <<"\"=$", ToString(idx)>>]
  IN
  IF Len(keys) = 0 THEN Throw("BadRequestError", <<"No data">>)
  ELSE [throws |-> FALSE,
        value |-> [setCols |-> Join(cols, <<", ">>), values |-> ObjectValues(dataToUpdate)]]

-----------------------------------------------------------------------------
(* models/company.js *)

CompanyFilterKeys == {"companyName", "minEmployees", "maxEmployees"}

CompanyWhere(where, params) ==
  Select("companies", CompanySelectList, where, "name", params)

\* the statement of Company.findAll
CompanyFindAllQuery == CompanyWhere(<<>>, <<>>)

\* Company.findFiltered up to its query: the error it throws or the
\* statement it sends
CompanyFindFilteredPlan(filters) ==
  LET keys == ObjectKeys(filters)
      bad == FirstInvalidKey(keys, CompanyFilterKeys)
      companyName == Get(filters, "companyName")
      minEmployees == Number(Get(filters, "minEmployees"))
      maxEmployees == Number(Get(filters, "maxEmployees"))
      rangeError ==
        Throw("BadRequestError",
              <<"minEmployees (", minEmployees, ") greater than maxEmployees (",
                maxEmployees, ")">>)
  IN
  IF bad # "" THEN
    Throw("BadRequestError", <<bad, " is not a valid filter field.">>)
  ELSE IF Len(keys) = 3 THEN
    IF JsGreater(minEmployees, maxEmployees) THEN rangeError
    ELSE Dispatch(CompanyWhere(
           << Pred("name", "ILIKE", <<1>>),
              Pred("num_employees", "BETWEEN", <<2, 3>>) >>,
           <<companyName, minEmployees, maxEmployees>>))
  ELSE IF Len(keys) = 2 THEN
    IF ~Includes(keys, "companyName") THEN
      IF JsGreater(minEmployees, maxEmployees) THEN rangeError
      ELSE Dispatch(CompanyWhere(
             << Pred("numEmployees", "BETWEEN", <<1, 2>>) >>,
             <<minEmployees, maxEmployees>>))
    ELSE IF ~Includes(keys, "minEmployees") THEN
      Dispatch(CompanyWhere(
        << Pred("name", "ILIKE", <<1>>), Pred("numEmployees", "<=", <<2>>) >>,
        <<companyName, maxEmployees>>))
    ELSE
      Dispatch(CompanyWhere(
        << Pred("name", "ILIKE", <<1>>), Pred("numEmployees", ">=", <<2>>) >>,
        <<companyName, minEmployees>>))
  ELSE IF Len(keys) >= 1 /\ keys[1] = "companyName" THEN
    Dispatch(CompanyWhere( << Pred("name", "ILIKE", <<1>>) >>, <<companyName>>))
  ELSE IF Len(keys) >= 1 /\ keys[1] = "minEmployees" THEN
    Dispatch(CompanyWhere( << Pred("num_employees", ">=", <<1>>) >>, <<minEmployees>>))
  ELSE
    Dispatch(CompanyWhere( << Pred("num_employees", "<=", <<1>>) >>, <<maxEmployees>>))

-----------------------------------------------------------------------------
(* models/job.js *)

JobFilterKeys == {"title", "minSalary", "hasEquity"}

JobWhere(where, params) == Select("jobs", JobSelectList, where, "title", params)

\* the statement of Job.findAll
JobFindAllQuery == JobWhere(<<>>, <<>>)

\* Job.findFiltered up to its query: the error it throws or the statement it
\* sends
JobFindFilteredPlan(filters) ==
  LET keys == ObjectKeys(filters)
      bad == FirstInvalidKey(keys, JobFilterKeys)
      title == Get(filters, "title")
      minSalary == Number(Get(filters, "minSalary"))
      hasEquity == Get(filters, "hasEquity")
  IN
  IF bad # "" THEN
    Throw("BadRequestError", <<bad, " is not a valid filter field.">>)
  ELSE IF Len(keys) = 3 THEN
    IF Truthy(hasEquity) THEN
      Dispatch(JobWhere(
        << Pred("title", "ILIKE", <<1>>), Pred("salary", ">=", <<2>>),
           Pred("equity", "!= 0", <<>>) >>,
        <<title, minSalary>>))
    ELSE
      Dispatch(JobWhere(
        << Pred("title", "ILIKE", <<1>>), Pred("salary", ">=", <<2>>) >>,
        <<title, minSalary>>))
  ELSE IF Len(keys) = 2 THEN
    IF ~Includes(keys, "title") THEN
      IF Truthy(hasEquity) THEN
        Dispatch(JobWhere(
          << Pred("salary", ">", <<1>>), Pred("equity", "!= 0", <<>>) >>,
          <<minSalary>>))
      ELSE
        Dispatch(JobWhere(<< Pred("salary", ">", <<1>>) >>, <<minSalary>>))
    ELSE IF ~Includes(keys, "minSalary") THEN
      IF Truthy(hasEquity) THEN
        Dispatch(JobWhere(
          << Pred("title", "ILIKE", <<1>>), Pred("equity", "!= 0", <<>>) >>,
          <<title>>))
      ELSE
        Dispatch(JobWhere(
          << Pred("title", "ILIKE", <<1>>), Pred("equity", "!= 0", <<>>) >>,
          <<title>>))
    ELSE
      Dispatch(JobWhere(
        << Pred("title", "ILIKE", <<1>>), Pred("salary", ">=", <<2>>) >>,
        <<title, minSalary>>))
  ELSE IF Len(keys) >= 1 /\ keys[1] = "title" THEN
    Dispatch(JobWhere(<< Pred("title", "ILIKE", <<1>>) >>, <<title>>))
  ELSE IF Len(keys) >= 1 /\ keys[1] = "minSalary" THEN
    Dispatch(JobWhere(<< Pred("salary", ">=", <<1>>) >>, <<minSalary>>))
  ELSE IF Truthy(hasEquity) THEN
    Dispatch(JobWhere(<< Pred("equity", "!= 0", <<>>) >>, <<>>))
  ELSE
    Dispatch(JobWhere(<<>>, <<>>))

\* the translation table Job.update passes
JobJsToSql ==
  << [k |-> "title", v |-> Str(<<"title">>)],
     [k |-> "salary", v |-> Str(<<"salary">>)],
     [k |-> "equity", v |-> Str(<<"equity">>)] >>

\* Job.update up to its query: the error it throws or the statement it sends
JobUpdatePlan(title, companyHandle, data) ==
  LET built == sqlForPartialUpdate(data, JobJsToSql)
      n == Len(built.value.values)
  IN
  IF Includes(ObjectKeys(data), "companyHandle") THEN
    Throw("BadRequestError", <<"Error: cannot change company handle">>)
  ELSE IF built.throws THEN built
  ELSE Dispatch(Update("jobs", built.value.setCols,
                       << Pred("title", "=", <<n + 1>>),
                          Pred("company_handle", "=", <<n + 2>>) >>,
                       JobSelectList,
                       built.value.values \o <<title, companyHandle>>))

\* the translation table Company.update passes
CompanyJsToSql ==
  << [k |-> "numEmployees", v |-> Str(<<"num_employees">>)],
     [k |-> "logoUrl", v |-> Str(<<"logo_url">>)] >>

\* Company.update up to its query: the error it throws or the statement it
\* sends
CompanyUpdatePlan(handle, data) ==
  LET built == sqlForPartialUpdate(data, CompanyJsToSql)
      n == Len(built.value.values)
  IN
  IF built.throws THEN built
  ELSE Dispatch(Update("companies", built.value.setCols,
                       <<Pred("handle", "=", <<n + 1>>)>>,
                       CompanySelectList,
                       built.value.values \o <<handle>>))

-----------------------------------------------------------------------------
(* The values the model draws rows and arguments from *)

HandleValues == {Str(<<"c", "1">>), Str(<<"c", "2">>)}

CompanyNames == {Str(<<"A", "b">>), Str(<<"b">>)}

\* num_employees and salary: NULL or a positive integer
NumValues == {Null} \cup {Num(n) : n \in 1..MaxNum}

CompanyData ==
  [handle : HandleValues, name : CompanyNames, description : {Str(<<"d">>)},
   numEmployees : NumValues, logoUrl : {Null}]

JobTitles == {Str(<<"J", "1">>), Str(<<"J", "2">>)}

EquityValues == {Null, Str(<<"0">>), Str(<<"0", ".", "5">>)}

JobData ==
  [title : JobTitles, salary : NumValues, equity : EquityValues,
   companyHandle : {Str(<<"c", "1">>)}]

\* a numeric filter arrives as a number, as the text of a number, or as a
\* text that is no number
NumericFilterValues == {Num(1), Str(<<"2">>), Str(<<"x">>)}

\* keys that are no filter of either model
BadFilterKeys == {"badKey", "thisShoudntWork"}

CompanyFilterValues ==
  [k \in CompanyFilterKeys \cup BadFilterKeys |->
     CASE k = "companyName" -> {Str(<<"a">>), Str(<<"B">>)}
       [] k \in {"minEmployees", "maxEmployees"} -> NumericFilterValues
       [] OTHER -> {Str(<<"x">>)}]

CompanyFilterInputs ==
  ObjectsOver(CompanyFilterKeys \cup BadFilterKeys, CompanyFilterValues, MaxFilterKeys)

JobFilterValues ==
  [k \in JobFilterKeys \cup BadFilterKeys |->
     CASE k = "title" -> {Str(<<"j">>), Str(<<"2">>)}
       [] k = "minSalary" -> NumericFilterValues
       [] k = "hasEquity" -> {Bool(TRUE), Bool(FALSE)}
       [] OTHER -> {Str(<<"x">>)}]

JobFilterInputs ==
  ObjectsOver(JobFilterKeys \cup BadFilterKeys, JobFilterValues, MaxFilterKeys)

\* the mappings Job.update is called with
JobUpdateValues ==
  [k \in {"title", "salary", "equity", "companyHandle", "company_handle"} |->
     CASE k = "title" -> JobTitles
       [] k = "salary" -> {Null, Num(2)}
       [] k = "equity" -> {Null, Str(<<"0", ".", "5">>)}
       [] OTHER -> {Str(<<"c", "2">>)}]

JobUpdateInputs ==
  ObjectsOver(DOMAIN JobUpdateValues, JobUpdateValues, MaxDataKeys)

\* the mappings Company.update is called with
CompanyUpdateValues ==
  [k \in {"name", "numEmployees", "logoUrl", "handle"} |->
     CASE k = "name" -> {Str(<<"b">>)}
       [] k = "numEmployees" -> {Null, Num(2)}
       [] k = "logoUrl" -> {Str(<<"u">>)}
       [] OTHER -> {Str(<<"c", "2">>)}]

CompanyUpdateInputs ==
  ObjectsOver(DOMAIN CompanyUpdateValues, CompanyUpdateValues, MaxDataKeys)

\* the translation table of the helper's own test
UserJsToSql ==
  << [k |-> "firstName", v |-> Str(<<"first_name">>)],
     [k |-> "lastName", v |-> Str(<<"last_name">>)],
     [k |-> "isAdmin", v |-> Str(<<"is_admin">>)] >>

TranslationTables == {CompanyJsToSql, JobJsToSql, UserJsToSql}

\* the keys and values the helper is called with: translated and
\* untranslated field names, array-index keys, a name every object inherits
HelperKeys == {"firstName", "numEmployees", "salary", "1", "2", "constructor"}

HelperValues == {Str(<<"test">>), Bool(FALSE), Null}

HelperInputs ==
  ObjectsOver(HelperKeys, [k \in HelperKeys |-> HelperValues], MaxDataKeys)

-----------------------------------------------------------------------------
(* The calls *)

Insert(table, columns, params) ==
  [kind |-> "INSERT", table |-> table, columns |-> columns, params |-> params]

\* the row an INSERT stores: each column gets the parameter at its position
InsertedRow(insert) ==
  [c \in TableColumns(insert.table) |->
     insert.params[CHOOSE i \in 1..Len(insert.columns) : insert.columns[i] = c]]

CompanyInsert(data) ==
  Insert("companies",
         <<"handle", "name", "description", "num_employees", "logo_url">>,
         <<data.handle, data.name, data.description, data.numEmployees, data.logoUrl>>)

JobInsert(data) ==
  Insert("jobs", <<"title", "salary", "equity", "company_handle">>,
         <<data.title, data.salary, data.equity, data.companyHandle>>)

\* the duplicate check of Company.create
CompanyDuplicateCheck(data) ==
  Select("companies", <<[col |-> "handle", as |-> "handle"]>>,
         <<Pred("handle", "=", <<1>>)>>, "", <<data.handle>>)

\* the duplicate check of Job.create
JobDuplicateCheck(data) ==
  Select("jobs", <<[col |-> "title", as |-> "title"]>>,
         <<Pred("title", "=", <<1>>), Pred("company_handle", "=", <<2>>)>>,
         "", <<data.title, data.companyHandle>>)

\* db.query(insert): the row is stored, unless it would repeat a primary key
DbInsert(q) ==
  IF KeyViolated(q.table, Append(Table(q.table), InsertedRow(q)))
  THEN [status |-> "DbError", table |-> Table(q.table)]
  ELSE [status |-> "ok", table |-> Append(Table(q.table), InsertedRow(q))]

\* no create call runs concurrently
NoCalls == [c \in 1..MaxCalls |-> [pc |-> "idle"]]

\* a settled call: what was called with what, the statements it sent, how it
\* ended (ok, or the error it threw) and what it returned
Settled(op, args, queries, status, message, value) ==
  [op |-> op, args |-> args, queries |-> queries, status |-> status,
   message |-> message, value |-> value]

Init ==
  /\ companies = <<>>
  /\ jobs = <<>>
  /\ res = Idle
  /\ calls = NoCalls

\* a store that already holds one company, one job, or nothing
InitFind ==
  /\ companies \in {<<>>} \cup {<<InsertedRow(CompanyInsert(d))>> : d \in CompanyData}
  /\ jobs \in {<<>>} \cup {<<InsertedRow(JobInsert(d))>> : d \in JobData}
  /\ Len(companies) + Len(jobs) <= 1
  /\ res = Idle
  /\ calls = NoCalls

\* Company.findFiltered(filters)
CompanyFindFiltered ==
  /\ res = Idle
  /\ \E filters \in CompanyFilterInputs :
       LET plan == CompanyFindFilteredPlan(filters) IN
       IF plan.throws
       THEN res' = Settled("Company.findFiltered", filters, <<>>, plan.error,
                           plan.message, <<>>)
       ELSE \E out \in DbSelect(plan.query) :
              res' = Settled("Company.findFiltered", filters, <<plan.query>>,
                             out.status, <<>>, out.rows)
  /\ UNCHANGED <<companies, jobs>>
  /\ UNCHANGED calls

\* Job.findFiltered(filters)
JobFindFiltered ==
  /\ res = Idle
  /\ \E filters \in JobFilterInputs :
       LET plan == JobFindFilteredPlan(filters) IN
       IF plan.throws
       THEN res' = Settled("Job.findFiltered", filters, <<>>, plan.error,
                           plan.message, <<>>)
       ELSE \E out \in DbSelect(plan.query) :
              res' = Settled("Job.findFiltered", filters, <<plan.query>>,
                             out.status, <<>>, out.rows)
  /\ UNCHANGED <<companies, jobs>>
  /\ UNCHANGED calls

\* Company.create(data), data drawn from inputs: the duplicate check, then
\* the insert
CompanyCreateOf(inputs) ==
  /\ res = Idle
  /\ \E data \in inputs :
       LET check == CompanyDuplicateCheck(data)
           insert == CompanyInsert(data)
           row == InsertedRow(insert)
       IN
       IF Matching(check) # {}
       THEN /\ res' = Settled("Company.create", data, <<check>>, "BadRequestError",
                              <<"Duplicate company: ", data.handle>>, <<>>)
            /\ UNCHANGED companies
       ELSE /\ companies' = Append(companies, row)
            /\ res' = Settled("Company.create", data, <<check, insert>>, "ok",
                              <<>>, <<Project(row, CompanySelectList)>>)
  /\ UNCHANGED jobs
  /\ UNCHANGED calls

\* Job.create(data), data drawn from inputs: the duplicate check, then the
\* insert (while the table holds fewer than MaxRows rows)
JobCreateOf(inputs) ==
  /\ res = Idle
  /\ \E data \in inputs :
       LET check == JobDuplicateCheck(data)
           insert == JobInsert(data)
           row == InsertedRow(insert)
       IN
       IF Matching(check) # {}
       THEN /\ res' = Settled("Job.create", data, <<check>>, "BadRequestError",
                              <<"Duplicate job: ", data.title, " at company: ",
                                data.companyHandle>>, <<>>)
            /\ UNCHANGED jobs
       ELSE /\ Len(jobs) < MaxRows
            /\ jobs' = Append(jobs, row)
            /\ res' = Settled("Job.create", data, <<check, insert>>, "ok",
                              <<>>, <<Project(row, JobSelectList)>>)
  /\ UNCHANGED companies
  /\ UNCHANGED calls

\* Job.update(title, companyHandle, data), data drawn from inputs
JobUpdateWith(inputs) ==
  /\ res = Idle
  /\ \E title \in JobTitles, companyHandle \in HandleValues, data \in inputs :
       LET plan == JobUpdatePlan(title, companyHandle, data)
           args == [title |-> title, companyHandle |-> companyHandle, data |-> data]
       IN
       IF plan.throws
       THEN /\ res' = Settled("Job.update", args, <<>>, plan.error, plan.message, <<>>)
            /\ UNCHANGED jobs
       ELSE \E out \in DbUpdate(plan.query) :
              /\ jobs' = out.table
              /\ res' = IF out.status = "ok" /\ out.rows = <<>>
                        THEN Settled("Job.update", args, <<plan.query>>, "NotFoundError",
                                     <<"No job: ", title, " at company: ", companyHandle>>,
                                     <<>>)
                        ELSE Settled("Job.update", args, <<plan.query>>, out.status,
                                     <<>>,
                                     IF out.status = "ok" THEN SubSeq(out.rows, 1, 1)
                                     ELSE <<>>)
  /\ UNCHANGED companies
  /\ UNCHANGED calls

CompanyCreate == CompanyCreateOf(CompanyData)

JobCreate == JobCreateOf(JobData)

JobUpdate == JobUpdateWith(JobUpdateInputs)

\* Job.get(title, companyHandle); the select names the column company_Handle
\* unquoted, which the database reads as company_handle, and takes one row
JobGet ==
  /\ res = Idle
  /\ \E title \in JobTitles, companyHandle \in HandleValues :
       LET q == Select("jobs", JobSelectList,
                       <<Pred("title", "=", <<1>>), Pred("company_handle", "=", <<2>>)>>,
                       "", <<title, companyHandle>>)
           args == [title |-> title, companyHandle |-> companyHandle]
       IN
       \E out \in DbSelect(q) :
         res' = IF out.status = "ok" /\ out.rows = <<>>
                THEN Settled("Job.get", args, <<q>>, "NotFoundError",
                             <<"No job: ", title, " at company: ", companyHandle>>, <<>>)
                ELSE Settled("Job.get", args, <<q>>, out.status, <<>>,
                             IF out.status = "ok" THEN SubSeq(out.rows, 1, 1) ELSE <<>>)
  /\ UNCHANGED <<companies, jobs>>
  /\ UNCHANGED calls

\* Company.get(handle): the company, then its jobs, then the test for the
\* company
CompanyGet ==
  /\ res = Idle
  /\ \E handle \in HandleValues :
       LET q == Select("companies", CompanySelectList, <<Pred("handle", "=", <<1>>)>>,
                       "", <<handle>>)
           qJobs == Select("jobs",
                           << [col |-> "title", as |-> "title"],
                              [col |-> "salary", as |-> "salary"],
                              [col |-> "equity", as |-> "equity"] >>,
                           <<Pred("company_handle", "=", <<1>>)>>, "", <<handle>>)
           args == [handle |-> handle]
       IN
       \E out \in DbSelect(q), outJobs \in DbSelect(qJobs) :
         res' = IF out.rows = <<>>
                THEN Settled("Company.get", args, <<q, qJobs>>, "NotFoundError",
                             <<"No company: ", handle>>, <<>>)
                ELSE Settled("Company.get", args, <<q, qJobs>>, "ok", <<>>,
                             <<[company |-> out.rows[1], jobs |-> outJobs.rows]>>)
  /\ UNCHANGED <<companies, jobs>>
  /\ UNCHANGED calls

\* Job.remove without its test for the removed row
JobRemoveUnchecked ==
  /\ res = Idle
  /\ \E title \in JobTitles, companyHandle \in HandleValues :
       LET q == Delete("jobs",
                       <<Pred("title", "=", <<1>>), Pred("company_handle", "=", <<2>>)>>,
                       <<[col |-> "title", as |-> "title"]>>,
                       <<title, companyHandle>>)
           args == [title |-> title, companyHandle |-> companyHandle]
       IN
       \E out \in DbDelete(q) :
         /\ jobs' = out.table
         /\ res' = Settled("Job.remove", args, <<q>>, out.status, <<>>, <<>>)
  /\ UNCHANGED companies
  /\ UNCHANGED calls

\* Job.remove(title, companyHandle)
JobRemove ==
  /\ res = Idle
  /\ \E title \in JobTitles, companyHandle \in HandleValues :
       LET q == Delete("jobs",
                       <<Pred("title", "=", <<1>>), Pred("company_handle", "=", <<2>>)>>,
                       <<[col |-> "title", as |-> "title"]>>,
                       <<title, companyHandle>>)
           args == [title |-> title, companyHandle |-> companyHandle]
       IN
       \E out \in DbDelete(q) :
         /\ jobs' = out.table
         /\ res' = IF out.status = "ok" /\ out.rows = <<>>
                   THEN Settled("Job.remove", args, <<q>>, "NotFoundError",
                                <<"No job: ", title, " at company: ", companyHandle>>,
                                <<>>)
                   ELSE Settled("Job.remove", args, <<q>>, out.status, <<>>, <<>>)
  /\ UNCHANGED companies
  /\ UNCHANGED calls

\* Company.remove(handle)
CompanyRemove ==
  /\ res = Idle
  /\ \E handle \in HandleValues :
       LET q == Delete("companies", <<Pred("handle", "=", <<1>>)>>,
                       <<[col |-> "handle", as |-> "handle"]>>, <<handle>>)
           args == [handle |-> handle]
       IN
       \E out \in DbDelete(q) :
         /\ companies' = out.table
         /\ res' = IF out.status = "ok" /\ out.rows = <<>>
                   THEN Settled("Company.remove", args, <<q>>, "NotFoundError",
                                <<"No company: ", handle>>, <<>>)
                   ELSE Settled("Company.remove", args, <<q>>, out.status, <<>>, <<>>)
  /\ UNCHANGED jobs
  /\ UNCHANGED calls

\* Company.update(handle, data), data drawn from inputs
CompanyUpdateWith(inputs) ==
  /\ res = Idle
  /\ \E handle \in HandleValues, data \in inputs :
       LET plan == CompanyUpdatePlan(handle, data)
           args == [handle |-> handle, data |-> data]
       IN
       IF plan.throws
       THEN /\ res' = Settled("Company.update", args, <<>>, plan.error, plan.message, <<>>)
            /\ UNCHANGED companies
       ELSE \E out \in DbUpdate(plan.query) :
              /\ companies' = out.table
              /\ res' = IF out.status = "ok" /\ out.rows = <<>>
                        THEN Settled("Company.update", args, <<plan.query>>, "NotFoundError",
                                     <<"No company: ", handle>>, <<>>)
                        ELSE Settled("Company.update", args, <<plan.query>>, out.status,
                                     <<>>,
                                     IF out.status = "ok" THEN SubSeq(out.rows, 1, 1)
                                     ELSE <<>>)
  /\ UNCHANGED jobs
  /\ UNCHANGED calls

CompanyUpdate == CompanyUpdateWith(CompanyUpdateInputs)

\* sqlForPartialUpdate(dataToUpdate, jsToSql), called on its own
CallSqlForPartialUpdate ==
  /\ res = Idle
  /\ \E dataToUpdate \in HelperInputs, jsToSql \in TranslationTables :
       LET built == sqlForPartialUpdate(dataToUpdate, jsToSql)
           args == [dataToUpdate |-> dataToUpdate, jsToSql |-> jsToSql]
       IN
       res' = IF built.throws
              THEN Settled("sqlForPartialUpdate", args, <<>>, built.error,
                           built.message, <<>>)
              ELSE Settled("sqlForPartialUpdate", args, <<>>, "ok", <<>>, built.value)
  /\ UNCHANGED <<companies, jobs>>
  /\ UNCHANGED calls

\* the call's result is handed to the caller; the next call may start
Return ==
  /\ res # Idle
  /\ res' = Idle
  /\ UNCHANGED <<companies, jobs>>
  /\ UNCHANGED calls

NextCompany == CompanyCreate \/ CompanyFindFiltered \/ Return

NextJob == JobCreate \/ JobFindFiltered \/ Return

Next ==
  \/ CompanyCreate
  \/ CompanyFindFiltered
  \/ JobCreate
  \/ JobFindFiltered
  \/ JobUpdate
  \/ CallSqlForPartialUpdate
  \/ Return

\* the whole program
Spec == Init /\ [][Next]_vars

\* the company model alone (table jobs stays empty)
SpecCompany == Init /\ [][NextCompany]_vars

\* the job model alone (table companies stays empty)
SpecJob == Init /\ [][NextJob]_vars

\* the job the update calls start from
FirstJob ==
  [title |-> Str(<<"J", "1">>), salary |-> Num(1), equity |-> Str(<<"0", ".", "5">>),
   companyHandle |-> Str(<<"c", "1">>)]

\* a store that holds one job
InitUpdate ==
  /\ companies = <<>>
  /\ jobs = <<InsertedRow(JobInsert(FirstJob))>>
  /\ res = Idle
  /\ calls = NoCalls

NextUpdate == CallSqlForPartialUpdate \/ JobUpdate \/ Return

\* the partial-update helper, alone and under Job.update, over one job
SpecUpdate == InitUpdate /\ [][NextUpdate]_vars

NextHelper == CallSqlForPartialUpdate \/ Return

\* the partial-update helper alone
SpecHelper == Init /\ [][NextHelper]_vars

\* the company the update calls start from
FirstCompany ==
  [handle |-> Str(<<"c", "1">>), name |-> Str(<<"A", "b">>), description |-> Str(<<"d">>),
   numEmployees |-> Num(1), logoUrl |-> Null]

\* a store that holds one company and one job of it
InitPair ==
  /\ companies = <<InsertedRow(CompanyInsert(FirstCompany))>>
  /\ jobs = <<InsertedRow(JobInsert(FirstJob))>>
  /\ res = Idle
  /\ calls = NoCalls

\* no data, and one field set to null
JobNoData == {<<>>, <<[k |-> "salary", v |-> Null]>>}

CompanyNoData == {<<>>, <<[k |-> "numEmployees", v |-> Null]>>}

NextNoData ==
  \/ CallSqlForPartialUpdate
  \/ JobUpdateWith(JobNoData)
  \/ CompanyUpdateWith(CompanyNoData)
  \/ Return

\* the helper and the two updates, called with and without data
SpecNoData == InitPair /\ [][NextNoData]_vars

\* two jobs of one company
TwoJobs == {FirstJob, [FirstJob EXCEPT !.title = Str(<<"J", "2">>)]}

\* a new title, or no salary
RetitleInputs ==
  {<<[k |-> "title", v |-> t]>> : t \in JobTitles} \cup {<<[k |-> "salary", v |-> Null]>>}

NextJobStore ==
  \/ JobCreateOf(TwoJobs)
  \/ JobUpdateWith(RetitleInputs)
  \/ JobRemove
  \/ Return

\* the jobs table under create, update and remove, from an empty table
SpecJobStore == Init /\ [][NextJobStore]_vars

\* two companies
TwoCompanies == {FirstCompany, [FirstCompany EXCEPT !.handle = Str(<<"c", "2">>)]}

\* a new handle, a new name, or no employee count
RehandleInputs ==
  { <<[k |-> "handle", v |-> Str(<<"c", "2">>)]>>,
    <<[k |-> "name", v |-> Str(<<"b">>)]>>,
    <<[k |-> "numEmployees", v |-> Null]>> }

NextCompanyStore ==
  \/ CompanyCreateOf(TwoCompanies)
  \/ CompanyUpdateWith(RehandleInputs)
  \/ CompanyRemove
  \/ Return

\* the companies table under create, update and remove, from an empty table
SpecCompanyStore == Init /\ [][NextCompanyStore]_vars

\* a store that holds one company, or one job
InitOne ==
  /\ \/ /\ companies = <<InsertedRow(CompanyInsert(FirstCompany))>>
        /\ jobs = <<>>
     \/ /\ companies = <<>>
        /\ jobs = <<InsertedRow(JobInsert(FirstJob))>>
  /\ res = Idle
  /\ calls = NoCalls

\* Job.update data: none, a title, a null salary, the company handle, a key
\* that names no column
JobLookupInputs ==
  { <<>>,
    <<[k |-> "title", v |-> Str(<<"J", "2">>)]>>,
    <<[k |-> "salary", v |-> Null]>>,
    <<[k |-> "salary", v |-> Null], [k |-> "companyHandle", v |-> Str(<<"c", "2">>)]>>,
    <<[k |-> "constructor", v |-> Null]>> }

\* Company.update data: none, a name, a null employee count, a key that names
\* no column
CompanyLookupInputs ==
  { <<>>,
    <<[k |-> "name", v |-> Str(<<"b">>)]>>,
    <<[k |-> "numEmployees", v |-> Null]>>,
    <<[k |-> "constructor", v |-> Null]>> }

NextLookup ==
  \/ JobGet
  \/ JobUpdateWith(JobLookupInputs)
  \/ JobRemove
  \/ CompanyGet
  \/ CompanyUpdateWith(CompanyLookupInputs)
  \/ CompanyRemove
  \/ Return

\* get, update and remove over a store of one row, by stored and unstored
\* keys
SpecLookup == InitOne /\ [][NextLookup]_vars

\* the statements of a create call: its duplicate check and its insert
CreateCheck(call) ==
  IF call.op = "Job.create" THEN JobDuplicateCheck(call.args)
  ELSE CompanyDuplicateCheck(call.args)

CreateInsert(call) ==
  IF call.op = "Job.create" THEN JobInsert(call.args) ELSE CompanyInsert(call.args)

\* caller c calls Job.create(data) or Company.create(data): the call stands
\* before its duplicate check
CreateCall(c) ==
  /\ calls[c].pc = "idle"
  /\ \E op \in {"Job.create", "Company.create"} :
       \E data \in (IF op = "Job.create" THEN TwoJobs ELSE TwoCompanies) :
         calls' = [calls EXCEPT ![c] = [pc |-> "check", op |-> op, args |-> data]]
  /\ UNCHANGED <<companies, jobs, res>>

\* the duplicate check of call c is answered: the call throws on a stored
\* row, otherwise it goes on to its insert
CreateCheckStep(c) ==
  /\ calls[c].pc = "check"
  /\ calls' = [calls EXCEPT ![c] =
       IF Matching(CreateCheck(calls[c])) # {}
       THEN [pc |-> "done", op |-> calls[c].op, args |-> calls[c].args,
             status |-> "BadRequestError"]
       ELSE [pc |-> "insert", op |-> calls[c].op, args |-> calls[c].args]]
  /\ UNCHANGED <<companies, jobs, res>>

\* the insert of call c is answered: the call returns the row, or fails with
\* the database's error
CreateInsertStep(c) ==
  /\ calls[c].pc = "insert"
  /\ LET out == DbInsert(CreateInsert(calls[c])) IN
     /\ IF calls[c].op = "Job.create"
        THEN jobs' = out.table /\ UNCHANGED companies
        ELSE companies' = out.table /\ UNCHANGED jobs
     /\ calls' = [calls EXCEPT ![c] =
          [pc |-> "done", op |-> calls[c].op, args |-> calls[c].args,
           status |-> out.status]]
  /\ UNCHANGED res

NextConcurrent ==
  \E c \in 1..MaxCalls : CreateCall(c) \/ CreateCheckStep(c) \/ CreateInsertStep(c)

\* create calls of MaxCalls callers, their queries interleaved, from an empty
\* store
SpecConcurrent == Init /\ [][NextConcurrent]_vars

NextFind == CompanyFindFiltered \/ JobFindFiltered \/ Return

\* the two filtered lookups over a store of at most one row
SpecFind == InitFind /\ [][NextFind]_vars

-----------------------------------------------------------------------------
(* What the claims speak of *)

Range(s) == {s[i] : i \in 1..Len(s)}

IsCompanyFind == res.op = "Company.findFiltered"

IsJobFind == res.op = "Job.findFiltered"

\* the whitelist of the model the settled lookup belongs to
Whitelist == IF IsCompanyFind THEN CompanyFilterKeys ELSE JobFilterKeys

\* the keys of the mapping that are outside the whitelist
OffendingKeys(filters, whitelist) == {filters[i].k : i \in 1..Len(filters)} \ whitelist

\* the number a supplied numeric filter stands for: the number itself, or the
\* number its decimal text writes; -1 when it stands for none
NumericValue(v) ==
  CASE v.t = "number" -> v.n
    [] v.t = "string" /\ v.s = <<"1">> -> 1
    [] v.t = "string" /\ v.s = <<"2">> -> 2
    [] OTHER -> -1

\* every numeric filter among ks that the mapping supplies stands for a number
NumericFiltersValid(filters, ks) ==
  \A k \in ks : HasOwn(filters, k) => NumericValue(OwnValue(filters, k)) >= 0

\* name contains the text, whatever the case of the letters
ContainsIgnoringCase(name, text) == ILikeContains(name.s, text.s)

SortedOn(rows, field) ==
  \A i \in 1..(Len(rows) - 1) : StrLeq(rows[i][field].s, rows[i + 1][field].s)

\* the company satisfies every filter the mapping supplies
CompanySatisfies(row, filters) ==
  /\ HasOwn(filters, "companyName") =>
       ContainsIgnoringCase(row.name, OwnValue(filters, "companyName"))
  /\ HasOwn(filters, "minEmployees") =>
       /\ row.num_employees.t = "number"
       /\ row.num_employees.n >= NumericValue(OwnValue(filters, "minEmployees"))
  /\ HasOwn(filters, "maxEmployees") =>
       /\ row.num_employees.t = "number"
       /\ row.num_employees.n <= NumericValue(OwnValue(filters, "maxEmployees"))

RangeInconsistent(filters) ==
  /\ HasOwn(filters, "minEmployees")
  /\ HasOwn(filters, "maxEmployees")
  /\ NumericValue(OwnValue(filters, "minEmployees")) >
       NumericValue(OwnValue(filters, "maxEmployees"))

HasEquityIsTrue(filters) ==
  HasOwn(filters, "hasEquity") /\ OwnValue(filters, "hasEquity") = Bool(TRUE)

EquityNonZero(v) == v.t = "string" /\ DecimalNonZero(v.s)

\* the job satisfies every filter the mapping supplies
JobSatisfies(row, filters) ==
  /\ HasOwn(filters, "title") =>
       ContainsIgnoringCase(row.title, OwnValue(filters, "title"))
  /\ HasOwn(filters, "minSalary") =>
       /\ row.salary.t = "number"
       /\ row.salary.n >= NumericValue(OwnValue(filters, "minSalary"))
  /\ HasEquityIsTrue(filters) => EquityNonZero(row.equity)

-----------------------------------------------------------------------------
(* C1 *)

\* C1: for every non-empty subset of {companyName, minEmployees,
\* maxEmployees} with a consistent range, Company.findFiltered sends one
\* query over table companies that names only existing columns, and returns
\* exactly the companies that satisfy every supplied filter, by name
\* ascending.
C1_CompanyFilterIsConjunction ==
  ( /\ IsCompanyFind
    /\ res.args # <<>>
    /\ OffendingKeys(res.args, CompanyFilterKeys) = {}
    /\ NumericFiltersValid(res.args, {"minEmployees", "maxEmployees"})
    /\ ~RangeInconsistent(res.args) )
  => /\ Len(res.queries) = 1
     /\ res.queries[1].table = "companies"
     /\ res.queries[1].orderBy = "name"
     /\ \A i \in 1..Len(res.queries[1].where) :
          res.queries[1].where[i].col \in CompanyTableColumns
     /\ res.status = "ok"
     /\ Range(res.value) =
          { Project(companies[i], CompanySelectList) :
              i \in {j \in 1..Len(companies) : CompanySatisfies(companies[j], res.args)} }
     /\ Len(res.value) =
          Cardinality({j \in 1..Len(companies) : CompanySatisfies(companies[j], res.args)})
     /\ SortedOn(res.value, "name")

-----------------------------------------------------------------------------
(* C2 *)

\* C2: whenever minSalary is supplied to Job.findFiltered, alone or with
\* title and/or hasEquity, the result holds every job whose salary is >=
\* minSalary and that satisfies the other supplied filters.
C2_MinSalaryInclusive ==
  ( /\ IsJobFind
    /\ OffendingKeys(res.args, JobFilterKeys) = {}
    /\ HasOwn(res.args, "minSalary")
    /\ NumericFiltersValid(res.args, {"minSalary"}) )
  => /\ res.status = "ok"
     /\ \A i \in 1..Len(jobs) :
          JobSatisfies(jobs[i], res.args)
            => Project(jobs[i], JobSelectList) \in Range(res.value)

-----------------------------------------------------------------------------
(* C3 *)

\* the job satisfies every conjunct of the query that does not read equity
SatisfiesOffEquity(row, q) ==
  \A i \in 1..Len(q.where) :
     q.where[i].col # "equity" => PredHolds(row, q.where[i], q.params)

\* C3: in every combination with title and minSalary, hasEquity = true keeps
\* only jobs with equity != 0, and hasEquity = false or absent puts no
\* constraint on equity: no job is left out for its equity.
C3_HasEquityConstraint ==
  ( /\ IsJobFind
    /\ OffendingKeys(res.args, JobFilterKeys) = {}
    /\ NumericFiltersValid(res.args, {"minSalary"}) )
  => /\ res.status = "ok"
     /\ Len(res.queries) = 1
     /\ IF HasEquityIsTrue(res.args)
        THEN \A i \in 1..Len(res.value) : EquityNonZero(res.value[i].equity)
        ELSE \A i \in 1..Len(jobs) :
               SatisfiesOffEquity(jobs[i], res.queries[1])
                 => Project(jobs[i], JobSelectList) \in Range(res.value)

-----------------------------------------------------------------------------
(* C4 *)

\* C4: called with an empty mapping, Company.findFiltered and
\* Job.findFiltered return every stored entity in an order findAll returns
\* (by name for companies, by title for jobs).
C4_EmptyFilterIsFindAll ==
  /\ (IsCompanyFind /\ res.args = <<>>)
       => /\ res.status = "ok"
          /\ res.value \in {out.rows : out \in DbSelect(CompanyFindAllQuery)}
  /\ (IsJobFind /\ res.args = <<>>)
       => /\ res.status = "ok"
          /\ res.value \in {out.rows : out \in DbSelect(JobFindAllQuery)}

-----------------------------------------------------------------------------
(* C5 *)

\* C5: whenever minEmployees and maxEmployees are both supplied to
\* Company.findFiltered and, as numbers, minEmployees > maxEmployees, the
\* call fails with BadRequestError and sends no query, with or without
\* companyName; with no key outside the whitelist the error is the range
\* error.
C5_InconsistentRangeRejected ==
  (IsCompanyFind /\ RangeInconsistent(res.args)
     /\ NumericFiltersValid(res.args, {"minEmployees", "maxEmployees"}))
  => /\ res.status = "BadRequestError"
     /\ res.queries = <<>>
     /\ OffendingKeys(res.args, CompanyFilterKeys) = {}
          => res.message[1] = "minEmployees ("

\* a range given as the text "2" and the number 1, with companyName, rejected
C5_Witness ==
  /\ IsCompanyFind
  /\ HasOwn(res.args, "companyName")
  /\ HasOwn(res.args, "minEmployees")
  /\ HasOwn(res.args, "maxEmployees")
  /\ OwnValue(res.args, "minEmployees") = Str(<<"2">>)
  /\ OwnValue(res.args, "maxEmployees") = Num(1)
  /\ res.status = "BadRequestError"
  /\ res.message[1] = "minEmployees ("
  /\ Len(companies) > 0

-----------------------------------------------------------------------------
(* C6 *)

\* C6: if any key of the filter mapping is outside the model's whitelist,
\* findFiltered (of either model) fails with a BadRequestError whose message
\* names an offending key, and sends no query, even when other keys are valid.
C6_UnknownKeyRejected ==
  ((IsCompanyFind \/ IsJobFind) /\ OffendingKeys(res.args, Whitelist) # {})
  => /\ res.status = "BadRequestError"
     /\ res.queries = <<>>
     /\ res.message[1] \in OffendingKeys(res.args, Whitelist)
     /\ res.message[2] = " is not a valid filter field."

\* a job lookup whose first two keys are valid and whose third is not
C6_Witness ==
  /\ IsJobFind
  /\ Len(res.args) = 3
  /\ res.args[1].k \in JobFilterKeys
  /\ res.args[2].k \in JobFilterKeys
  /\ res.args[3].k = "thisShoudntWork"
  /\ res.status = "BadRequestError"
  /\ res.message[1] = "thisShoudntWork"
  /\ Len(jobs) > 0

-----------------------------------------------------------------------------
(* C7 *)

\* C7: when a supplied numeric filter (minEmployees, maxEmployees, minSalary)
\* stands for no number, findFiltered fails with an invalid-filter-value
\* error (a client-input error) and sends no query.
C7_NonNumericFilterRejected ==
  ( /\ IsCompanyFind \/ IsJobFind
    /\ OffendingKeys(res.args, Whitelist) = {}
    /\ ~NumericFiltersValid(res.args, {"minEmployees", "maxEmployees", "minSalary"}) )
  => /\ res.status = "BadRequestError"
     /\ res.queries = <<>>

-----------------------------------------------------------------------------
(* C8 *)

IsHelperCall == res.op = "sqlForPartialUpdate"

\* the column a key stands for: its entry in the translation table when the
\* table has one, otherwise the key itself
ExpectedColumn(key, jsToSql) ==
  IF HasOwn(jsToSql, key) THEN OwnValue(jsToSql, key).s[1] ELSE key

\* C8: for every non-empty mapping with n keys, sqlForPartialUpdate produces
\* exactly n assignments, the i-th naming the column of the i-th inserted key
\* (its translation-table entry, otherwise the key itself) with placeholder $i.
C8_AssignmentPerInsertedKey ==
  (IsHelperCall /\ res.args.dataToUpdate # <<>>)
  => /\ res.status = "ok"
     /\ Len(res.value.setCols) = 5 * Len(res.args.dataToUpdate) - 1
     /\ \A i \in 1..Len(res.args.dataToUpdate) :
          /\ SetAssignments(res.value.setCols)[i].col =
               ExpectedColumn(res.args.dataToUpdate[i].k, res.args.jsToSql)
          /\ SetAssignments(res.value.setCols)[i].arg = i

-----------------------------------------------------------------------------
(* C9 *)

IsJobUpdate == res.op = "Job.update"

\* the mapping {salary: null, equity: null}, in either order
SetsBothNull(data) ==
  /\ Len(data) = 2
  /\ {data[1].k, data[2].k} = {"salary", "equity"}
  /\ data[1].v = Null
  /\ data[2].v = Null

\* the stored jobs with this title at this company
StoredJobs(title, companyHandle) ==
  { i \in 1..Len(jobs) :
      jobs[i].title = title /\ jobs[i].company_handle = companyHandle }

\* Job.update with {salary: null, equity: null} on a stored job sends the two
\* nulls as parameters, stores null in both fields and returns them
NullUpdateStoresNull ==
  (IsJobUpdate /\ SetsBothNull(res.args.data) /\ res.status # "NotFoundError")
  => /\ res.status = "ok"
     /\ SubSeq(res.queries[1].params, 1, 2) = <<Null, Null>>
     /\ StoredJobs(res.args.title, res.args.companyHandle) # {}
     /\ \A i \in StoredJobs(res.args.title, res.args.companyHandle) :
          jobs[i].salary = Null /\ jobs[i].equity = Null
     /\ res.value[1].salary = Null
     /\ res.value[1].equity = Null

IsKeyOrder(p, data) ==
  /\ \A i \in 1..Len(data) : \E j \in 1..Len(data) : p[j] = i
  /\ \A i, j \in 1..Len(data) :
       i < j => IF ArrayIndex(data[p[i]].k) >= 0
                THEN ArrayIndex(data[p[j]].k) < 0
                     \/ ArrayIndex(data[p[i]].k) < ArrayIndex(data[p[j]].k)
                ELSE ArrayIndex(data[p[j]].k) < 0 /\ p[i] < p[j]

-----------------------------------------------------------------------------
(* C10 *)

\* the mappings with the keys of data, in the same order, and any values
SameKeysAnyValues(data) ==
  { [i \in 1..Len(data) |-> [k |-> data[i].k, v |-> f[i]]] :
      f \in [1..Len(data) -> HelperValues] }

\* C10: the SET fragment depends only on the mapping's keys and the
\* translation table: every call with the same keys in the same order returns
\* the same fragment whatever the values, and around each column the fragment
\* holds only the template's own pieces and the placeholder's number.
C10_FragmentIndependentOfValues ==
  (IsHelperCall /\ res.status = "ok")
  => /\ \A other \in SameKeysAnyValues(res.args.dataToUpdate) :
          sqlForPartialUpdate(other, res.args.jsToSql).value.setCols = res.value.setCols
     /\ \A i \in 1..Len(res.args.dataToUpdate) :
          /\ res.value.setCols[5 * i - 4] = "\""
          /\ res.value.setCols[5 * i - 2] = "\"=$"
          /\ res.value.setCols[5 * i - 1] = ToString(i)
     /\ \A j \in 1..Len(res.value.setCols) : j % 5 = 0 => res.value.setCols[j] = ", "

\* a call with two keys whose first value is the text "test"
C10_Witness ==
  /\ IsHelperCall
  /\ res.status = "ok"
  /\ Len(res.args.dataToUpdate) = 2
  /\ res.args.dataToUpdate[1].v = Str(<<"test">>)
  /\ res.args.dataToUpdate[2].v = Null
  /\ \A j \in 1..Len(res.value.setCols) : res.value.setCols[j] \notin {"test", "null"}

-----------------------------------------------------------------------------
(* C11 *)

IsCompanyUpdate == res.op = "Company.update"

\* the call that settles in this step is an update called with no data
SettlesUpdateWithNoData ==
  /\ res = Idle
  /\ res'.op \in {"Job.update", "Company.update"}
  /\ res'.args.data = <<>>

\* C11: sqlForPartialUpdate called with an empty mapping fails with a
\* BadRequestError; Job.update and Company.update called with empty data fail
\* with that error, send no query and leave the store unchanged.
C11_NoDataRejected ==
  /\ []((IsHelperCall /\ res.args.dataToUpdate = <<>>)
          => res.status = "BadRequestError" /\ res.message = <<"No data">>)
  /\ [](((IsJobUpdate \/ IsCompanyUpdate) /\ res.args.data = <<>>)
          => /\ res.status = "BadRequestError"
             /\ res.message = <<"No data">>
             /\ res.queries = <<>>)
  /\ [][SettlesUpdateWithNoData => UNCHANGED <<companies, jobs>>]_vars

\* Company.update of the stored company, called with no data, has been
\* rejected
C11_Witness ==
  /\ IsCompanyUpdate
  /\ res.args.data = <<>>
  /\ res.status = "BadRequestError"
  /\ \E i \in 1..Len(companies) : companies[i].handle = res.args.handle

-----------------------------------------------------------------------------
(* C12 *)

\* no two stored jobs share the pair (title, companyHandle)
JobsUnique ==
  \A i, j \in 1..Len(jobs) :
     (jobs[i].title = jobs[j].title /\ jobs[i].company_handle = jobs[j].company_handle)
     => i = j

\* the call that settles in this step is a Job.create whose pair is stored
SettlesCreateOfStoredJob ==
  /\ res = Idle
  /\ res'.op = "Job.create"
  /\ \E i \in 1..Len(jobs) :
       /\ jobs[i].title = res'.args.title
       /\ jobs[i].company_handle = res'.args.companyHandle

\* C12: after any sequence of Job.create, Job.update and Job.remove calls
\* from a store without duplicate jobs, no two stored jobs share the pair
\* (title, companyHandle); a Job.create whose pair is already stored fails with
\* BadRequestError and inserts nothing.
C12_JobPairUnique ==
  /\ []JobsUnique
  /\ [][SettlesCreateOfStoredJob
          => (res'.status = "BadRequestError" /\ UNCHANGED jobs)]_vars

-----------------------------------------------------------------------------
(* C13 *)

\* the call that settles in this step is a Job.update
SettlesJobUpdate == res = Idle /\ res'.op = "Job.update"

\* every stored job keeps its company_handle in this step
CompanyHandlesKept ==
  /\ Len(jobs') = Len(jobs)
  /\ \A i \in 1..Len(jobs) : jobs'[i].company_handle = jobs[i].company_handle

\* C13: a stored job's companyHandle never changes after creation: every
\* Job.update, for any data mapping, either fails or leaves the companyHandle
\* of every job unchanged, and a mapping that contains companyHandle is
\* rejected with BadRequestError before any query is sent.
C13_CompanyHandleImmutable ==
  /\ [][SettlesJobUpdate => (res'.status # "ok" \/ CompanyHandlesKept)]_vars
  /\ []((IsJobUpdate /\ HasOwn(res.args.data, "companyHandle"))
          => res.status = "BadRequestError" /\ res.queries = <<>>)

-----------------------------------------------------------------------------
(* C14 *)

\* no two stored companies share a handle
CompaniesUnique ==
  \A i, j \in 1..Len(companies) :
     companies[i].handle = companies[j].handle => i = j

\* the call that settles in this step is a Company.create or a Company.update
SettlesCompanyWrite == res = Idle /\ res'.op \in {"Company.create", "Company.update"}

\* every company stored before this step keeps its handle
HandlesKept ==
  /\ Len(companies') >= Len(companies)
  /\ \A i \in 1..Len(companies) : companies'[i].handle = companies[i].handle

\* the call that settles in this step is a Company.create of a stored handle
SettlesCreateOfStoredCompany ==
  /\ res = Idle
  /\ res'.op = "Company.create"
  /\ \E i \in 1..Len(companies) : companies[i].handle = res'.args.handle

\* C14: after any sequence of Company.create, Company.update and
\* Company.remove calls, no two stored companies share a handle and no stored
\* company's handle differs from the one it was created with; a Company.create
\* with a stored handle fails with BadRequestError and inserts nothing.
C14_CompanyHandleUniqueImmutable ==
  /\ []CompaniesUnique
  /\ [][SettlesCompanyWrite => HandlesKept]_vars
  /\ [][SettlesCreateOfStoredCompany
          => (res'.status = "BadRequestError" /\ UNCHANGED companies)]_vars

-----------------------------------------------------------------------------
(* C15 *)

JobKeyedOps == {"Job.update", "Job.remove", "Job.get"}

CompanyKeyedOps == {"Company.update", "Company.remove", "Company.get"}

JobKeyStored(args) ==
  \E i \in 1..Len(jobs) :
     jobs[i].title = args.title /\ jobs[i].company_handle = args.companyHandle

CompanyKeyStored(args) ==
  \E i \in 1..Len(companies) : companies[i].handle = args.handle

\* the call that settles in this step is given a key that matches no stored
\* entity
SettlesWithUnstoredKey ==
  /\ res = Idle
  /\ \/ res'.op \in JobKeyedOps /\ ~JobKeyStored(res'.args)
     \/ res'.op \in CompanyKeyedOps /\ ~CompanyKeyStored(res'.args)

\* C15 as stated: Job.update, Job.remove, Company.update and Company.remove
\* called with a key that matches no stored entity fail with NotFoundError and
\* leave every stored entity unchanged; Job.get and Company.get with such a
\* key fail with NotFoundError.
C15_UnstoredKeyNotFound ==
  [][SettlesWithUnstoredKey
       => (res'.status = "NotFoundError" /\ UNCHANGED <<companies, jobs>>)]_vars

\* the update reads no data mapping (get, remove), or one with no key
NoKeys(call) ==
  call.op \in {"Job.update", "Company.update"} /\ call.args.data = <<>>

\* the data mapping of a Job.update holds the key companyHandle
NamesCompanyHandle(call) ==
  call.op = "Job.update" /\ HasOwn(call.args.data, "companyHandle")

\* the data mapping of an update holds a key that stands for no column
NamesNoColumn(call) ==
  /\ call.op \in {"Job.update", "Company.update"}
  /\ \E i \in 1..Len(call.args.data) :
       IF call.op = "Job.update"
       THEN call.args.data[i].k \notin JobTableColumns
       ELSE call.args.data[i].k \notin
              (CompanyTableColumns \cup {"numEmployees", "logoUrl"})

\* C15 amended: called with a key that matches no stored entity, Job.remove
\* and Company.remove fail with NotFoundError, and so do Job.update and
\* Company.update when their data mapping is not empty, does not hold the key
\* companyHandle (Job.update) and names only columns; an update with empty
\* data or with the key companyHandle fails with BadRequestError before any
\* query instead, and one whose data names no column fails with the database's
\* error; in every case every stored entity is unchanged. Job.get and
\* Company.get with such a key fail with NotFoundError.
C15_UnstoredKeyNotFoundOrRejected ==
  [][SettlesWithUnstoredKey
       => /\ UNCHANGED <<companies, jobs>>
          /\ res'.status =
               (IF NoKeys(res') \/ NamesCompanyHandle(res') THEN "BadRequestError"
                ELSE IF NamesNoColumn(res') THEN "DbError"
                ELSE "NotFoundError")
          /\ res'.status = "BadRequestError" => res'.queries = <<>>]_vars

\* a Job.update that names a job other than the stored one, with a new
\* title, has failed with NotFoundError
C15_Witness ==
  /\ IsJobUpdate
  /\ Len(jobs) = 1
  /\ ~JobKeyStored(res.args)
  /\ res.args.data = <<[k |-> "title", v |-> Str(<<"J", "2">>)]>>
  /\ res.status = "NotFoundError"
  /\ Len(res.queries) = 1

-----------------------------------------------------------------------------
(* C16 *)

\* the columns the keys of a data mapping stand for
NamedColumns(data, jsToSql) ==
  {ExpectedColumn(data[i].k, jsToSql) : i \in 1..Len(data)}

\* from table before to table after, one row at a position in targets changed
\* in columns among cols at most, and nothing else changed
OnlyFieldsOfOneRowChange(before, after, targets, cols) ==
  /\ Len(after) = Len(before)
  /\ \E t \in targets :
       /\ \A i \in 1..Len(before) : i # t => after[i] = before[i]
       /\ \A c \in DOMAIN before[t] : c \notin cols => after[t][c] = before[t][c]

\* C16: a successful Job.update or Company.update changes, on the entity
\* whose key was given, only the fields present in the data mapping; every
\* other field keeps its prior value and every other stored entity is
\* unchanged.
C16_UpdateChangesOnlyGivenFields ==
  /\ [][(res = Idle /\ res'.op = "Job.update" /\ res'.status = "ok")
          => /\ companies' = companies
             /\ OnlyFieldsOfOneRowChange(
                  jobs, jobs',
                  { i \in 1..Len(jobs) :
                      /\ jobs[i].title = res'.args.title
                      /\ jobs[i].company_handle = res'.args.companyHandle },
                  NamedColumns(res'.args.data, JobJsToSql))]_vars
  /\ [][(res = Idle /\ res'.op = "Company.update" /\ res'.status = "ok")
          => /\ jobs' = jobs
             /\ OnlyFieldsOfOneRowChange(
                  companies, companies',
                  { i \in 1..Len(companies) : companies[i].handle = res'.args.handle },
                  NamedColumns(res'.args.data, CompanyJsToSql))]_vars

-----------------------------------------------------------------------------
(* C17 *)

\* calls c and d are create calls for the same key, and both have settled
SameKeySettled(c, d) ==
  /\ c # d
  /\ calls[c].pc = "done"
  /\ calls[d].pc = "done"
  /\ calls[c].op = calls[d].op
  /\ IF calls[c].op = "Job.create"
     THEN /\ calls[c].args.title = calls[d].args.title
          /\ calls[c].args.companyHandle = calls[d].args.companyHandle
     ELSE calls[c].args.handle = calls[d].args.handle

\* C17: when two create calls for the same key (Job.create with the same
\* (title, companyHandle), Company.create with the same handle) run
\* concurrently, their duplicate checks and inserts interleaving, the
\* duplicate check prevents a second row: at most one call inserts and the
\* other fails with BadRequestError.
C17_ConcurrentCreateInsertsOnce ==
  /\ JobsUnique
  /\ CompaniesUnique
  /\ \A c, d \in 1..MaxCalls :
       SameKeySettled(c, d)
       => /\ ~(calls[c].status = "ok" /\ calls[d].status = "ok")
          /\ calls[c].status = "ok" => calls[d].status = "BadRequestError"

====
